---- MODULE Spec2Model ----
(***************************************************************************)
(* Model of the journey tree editor of src/src/App.jsx: the tree value,    *)
(* the id counter and the selection held by the JourneyDemo component, the *)
(* mutation handlers addChild / deleteNode / updateNode / changeType, the  *)
(* index builders collectNodes / collectWithParents and the layout         *)
(* function computeLayout.                                                 *)
(*                                                                         *)
(* JavaScript values are encoded as follows.                               *)
(*   object        a record; a key the object does not have is not in its  *)
(*                 DOMAIN                                                  *)
(*   array         Array(s), s a sequence (TLA+ sequences are 1-based, the *)
(*                 indices kept in parentKey.index are 0-based as in JS)   *)
(*   undefined     Undefined                                               *)
(*   null          Null                                                    *)
(*   reference     Ref(p): the object reached from the root of the working *)
(*                 copy by the slot path p                                 *)
(*   `n${k}`       Id(k), a string                                         *)
(***************************************************************************)
EXTENDS Integers, Sequences, FiniteSets, TLC

VARIABLES tree, selectedId, idSeq, nOps, last, prev, issued

vars == <<tree, selectedId, idSeq, nOps, last, prev, issued>>

(* Bounds of the exploration: the number of handler calls of a run, in the *)
(* specification of all four handlers and in that of the structural ones.  *)
MaxOps == 2
MaxStructOps == 3
MaxUiOps == 3

(* Values the text inputs of the properties panel are given. *)
TitleInputs == {"Renamed"}
SubtitleInputs == {"Sub"}
ConditionInputs == {"cond"}

NodeTypes == {"trigger", "action", "branch"}

Undefined == [undefined |-> TRUE]
Null == [null |-> TRUE]
Array(s) == [array |-> s]
Ref(p) == [ref |-> p]
EmptyObject == [k \in {} |-> ""]

Id(k) == "n" \o ToString(k)

(* Reading a property of an object: undefined when the key is missing. *)
Field(obj, k) == IF k \in DOMAIN obj THEN obj[k] ELSE Undefined

(* x || [] and x ?? [] for x an array or undefined. *)
OrEmpty(x) == IF x = Undefined THEN Array(<<>>) ELSE x

(* obj.k = v *)
SetField(obj, k, v) == [j \in DOMAIN obj \cup {k} |-> IF j = k THEN v ELSE obj[j]]

Leaf(id, title) ==
  [id |-> id, type |-> "action", title |-> title, props |-> EmptyObject,
   children |-> Array(<<>>)]

initialTree ==
  [id |-> "n1", type |-> "trigger", title |-> "Trigger event",
   props |-> [subtitle |-> "Connect to in-store Wi-Fi"],
   children |-> Array(<<
     [id |-> "n2", type |-> "branch", title |-> "If / Then",
      props |-> [subtitle |-> "Loyalty member?", condition |-> "audience.member = true"],
      branches |-> Array(<<
        [label |-> "Yes",
         node |-> [id |-> "n3", type |-> "action", title |-> "Offer experiment",
                   props |-> [subtitle |-> "A/B test"],
                   children |-> Array(<<
                     Leaf("n4", "In-store exclusive offer"),
                     Leaf("n5", "Recommendations just for you")>>)]],
        [label |-> "No",
         node |-> [id |-> "n6", type |-> "action", title |-> "Best channel to communicate",
                   props |-> [subtitle |-> "Optimize across channels"],
                   children |-> Array(<<
                     Leaf("n7", "500 loyalty points (sign-up)"),
                     Leaf("n8", "Coupon (sign-up)")>>)]]
      >>)]
   >>)]

NODE_W == 220
NODE_H == 56
LEVEL_GAP_Y == 72
SIBLING_GAP_X == 56

(* The array a function over 1..n describes, its elements computed once. *)
Values(f) == <<>> \o f

RECURSIVE Flatten(_)
Flatten(ss) == IF ss = <<>> THEN <<>> ELSE Head(ss) \o Flatten(Tail(ss))

RECURSIVE Sum(_)
Sum(s) == IF s = <<>> THEN 0 ELSE Head(s) + Sum(Tail(s))

Max(a, b) == IF a >= b THEN a ELSE b

(* The sub-elements a traversal of n descends into, with the slot of each: *)
(* n.branches?.forEach for a branch, n.children?.forEach otherwise.        *)
Slots(n) ==
  IF n.type = "branch"
  THEN LET bs == Field(n, "branches")
       IN IF bs = Undefined THEN <<>>
          ELSE [i \in 1..Len(bs.array) |->
                  [key |-> [kind |-> "branch", index |-> i - 1], node |-> bs.array[i].node]]
  ELSE LET cs == Field(n, "children")
       IN IF cs = Undefined THEN <<>>
          ELSE [i \in 1..Len(cs.array) |->
                  [key |-> [kind |-> "child", index |-> i - 1], node |-> cs.array[i]]]

(* The entries walk(n, parent, parentKey) sets, in the order it sets them. *)
(* path is the slot path of n, parent the reference to its parent.         *)
RECURSIVE walkWithParents(_, _, _, _)
walkWithParents(n, parent, parentKey, path) ==
  LET slots == Slots(n)
  IN <<[id |-> n.id, node |-> Ref(path), parent |-> parent, parentKey |-> parentKey]>>
     \o Flatten([i \in 1..Len(slots) |->
                  walkWithParents(slots[i].node, Ref(path), slots[i].key,
                                  Append(path, slots[i].key))])

(* Map.set keeps the last value set for a key. *)
LastSet(entries, id) ==
  LET is == {i \in 1..Len(entries) : entries[i].id = id}
  IN entries[CHOOSE i \in is : \A j \in is : j <= i]

(* collectWithParents recording the index of a slot counted from one. *)
collectWithParentsIndexFromOne(root) ==
  LET entries == walkWithParents(root, Null, Null, <<>>)
      e(id) == LastSet(entries, id)
  IN [id \in {entries[i].id : i \in 1..Len(entries)} |->
        IF e(id).parentKey = Null THEN e(id)
        ELSE [e(id) EXCEPT !.parentKey.index = @ + 1]]

collectWithParents(root) ==
  LET entries == walkWithParents(root, Null, Null, <<>>)
  IN [id \in {entries[i].id : i \in 1..Len(entries)} |-> LastSet(entries, id)]

(* Following one slot of a node: parent.children[index] or                *)
(* parent.branches[index].node.                                            *)
Deref(n, key) ==
  IF key.kind = "branch" THEN n.branches.array[key.index + 1].node
  ELSE n.children.array[key.index + 1]

(* The object a reference into the working copy t designates. *)
RECURSIVE NodeAt(_, _)
NodeAt(t, path) ==
  IF path = <<>> THEN t ELSE NodeAt(Deref(t, Head(path)), Tail(path))

(* The working copy t after the object at path has been mutated into v. *)
RECURSIVE Assign(_, _, _)
Assign(t, path, v) ==
  IF path = <<>> THEN v
  ELSE LET key == Head(path)
           sub == Assign(Deref(t, key), Tail(path), v)
       IN IF key.kind = "branch"
          THEN [t EXCEPT !.branches =
                  Array([t.branches.array EXCEPT ![key.index + 1] =
                           [@ EXCEPT !.node = sub]])]
          ELSE [t EXCEPT !.children =
                  Array([t.children.array EXCEPT ![key.index + 1] = sub])]

(* array.pop() in place of array.splice(index, 1). *)
Splice1Pop(s, index) == SubSeq(s, 1, Len(s) - 1)

(* array.splice(index, 1) *)
Splice1(s, index) ==
  [i \in 1..(Len(s) - (IF index < Len(s) THEN 1 ELSE 0)) |->
     IF i <= index THEN s[i] ELSE s[i + 1]]

(* JSON.parse(JSON.stringify(n)): a key whose value is undefined is not    *)
(* written, arrays and objects are copied element by element.              *)
RECURSIVE cloneTree(_)
cloneTree(n) ==
  [k \in {j \in DOMAIN n : ~(j \in {"children", "branches"} /\ n[j] = Undefined)} |->
     CASE k = "children" ->
            Array([i \in 1..Len(n.children.array) |-> cloneTree(n.children.array[i])])
       [] k = "branches" ->
            Array([i \in 1..Len(n.branches.array) |->
                     [label |-> n.branches.array[i].label,
                      node |-> cloneTree(n.branches.array[i].node)]])
       [] OTHER -> n[k]]

(* The mutators: each takes the working copy t and the id counter seq and  *)
(* gives the working copy and the counter it leaves.                       *)
Result(t, seq) == [tree |-> t, idSeq |-> seq]

(* addChildMutator reading idSeq.current without incrementing it. *)
addChildMutatorNoIncrement(t, seq, targetId) ==
  LET m == collectWithParents(t)
  IN IF targetId \notin DOMAIN m THEN Result(t, seq)
     ELSE LET at == m[targetId].node.ref
              target == NodeAt(t, at)
              newNode == Leaf(Id(seq), "New action")
          IN IF target.type = "branch"
             THEN LET bs == OrEmpty(Field(target, "branches")).array
                      entry == [label |-> "Path " \o ToString(Len(bs) + 1), node |-> newNode]
                  IN Result(Assign(t, at, SetField(target, "branches", Array(Append(bs, entry)))),
                            seq)
             ELSE LET cs == OrEmpty(Field(target, "children")).array
                  IN Result(Assign(t, at, SetField(target, "children", Array(Append(cs, newNode)))),
                            seq)

(* addChildMutator labelling the new entry with the count before the push. *)
addChildMutatorLabelCount(t, seq, targetId) ==
  LET m == collectWithParents(t)
  IN IF targetId \notin DOMAIN m THEN Result(t, seq)
     ELSE LET at == m[targetId].node.ref
              target == NodeAt(t, at)
              newNode == Leaf(Id(seq), "New action")
          IN IF target.type = "branch"
             THEN LET bs == OrEmpty(Field(target, "branches")).array
                      entry == [label |-> "Path " \o ToString(Len(bs)), node |-> newNode]
                  IN Result(Assign(t, at, SetField(target, "branches", Array(Append(bs, entry)))),
                            seq + 1)
             ELSE LET cs == OrEmpty(Field(target, "children")).array
                  IN Result(Assign(t, at, SetField(target, "children", Array(Append(cs, newNode)))),
                            seq + 1)

(* addChildMutator naming the new node after the number of nodes. *)
addChildMutatorIdFromCount(t, seq, targetId) ==
  LET m == collectWithParents(t)
  IN IF targetId \notin DOMAIN m THEN Result(t, seq)
     ELSE LET at == m[targetId].node.ref
              target == NodeAt(t, at)
              newNode == Leaf(Id(Cardinality(DOMAIN m) + 1), "New action")
          IN IF target.type = "branch"
             THEN LET bs == OrEmpty(Field(target, "branches")).array
                      entry == [label |-> "Path " \o ToString(Len(bs) + 1), node |-> newNode]
                  IN Result(Assign(t, at, SetField(target, "branches", Array(Append(bs, entry)))),
                            seq + 1)
             ELSE LET cs == OrEmpty(Field(target, "children")).array
                  IN Result(Assign(t, at, SetField(target, "children", Array(Append(cs, newNode)))),
                            seq + 1)

addChildMutator(t, seq, targetId) ==
  LET m == collectWithParents(t)
  IN IF targetId \notin DOMAIN m THEN Result(t, seq)
     ELSE LET at == m[targetId].node.ref
              target == NodeAt(t, at)
              newNode == [id |-> Id(seq), type |-> "action", title |-> "New action",
                          props |-> EmptyObject, children |-> Array(<<>>)]
          IN IF target.type = "branch"
             THEN LET bs == OrEmpty(Field(target, "branches")).array
                      entry == [label |-> "Path " \o ToString(Len(bs) + 1), node |-> newNode]
                  IN Result(Assign(t, at, SetField(target, "branches", Array(Append(bs, entry)))),
                            seq + 1)
             ELSE LET cs == OrEmpty(Field(target, "children")).array
                  IN Result(Assign(t, at, SetField(target, "children", Array(Append(cs, newNode)))),
                            seq + 1)

deleteNodeMutator(t, seq, targetId) ==
  LET m == collectWithParents(t)
  IN IF targetId \notin DOMAIN m THEN Result(t, seq)
     ELSE IF m[targetId].parent = Null THEN Result(t, seq)
     ELSE LET at == m[targetId].parent.ref
              parent == NodeAt(t, at)
              parentKey == m[targetId].parentKey
          IN IF parentKey.kind = "child"
             THEN Result(Assign(t, at, [parent EXCEPT !.children =
                                          Array(Splice1(parent.children.array, parentKey.index))]),
                         seq)
             ELSE IF parentKey.kind = "branch"
             THEN LET rest == Splice1(parent.branches.array, parentKey.index)
                  IN Result(Assign(t, at, [parent EXCEPT !.branches =
                                             IF Len(rest) = 0 THEN Array(<<>>) ELSE Array(rest)]),
                            seq)
             ELSE Result(t, seq)

(* The updaters updateNode is called with: each takes the node and the id  *)
(* counter and gives the node and the counter it leaves.                   *)
Updated(node, seq) == [node |-> node, idSeq |-> seq]

setTitleUpdater(node, seq, value) == Updated(SetField(node, "title", value), seq)

setPropUpdater(node, seq, key, value) ==
  LET props == IF "props" \in DOMAIN node THEN node.props ELSE EmptyObject
  IN Updated(SetField(node, "props", SetField(props, key, value)), seq)

(* changeTypeUpdater leaving an empty list in branches instead of undefined. *)
changeTypeUpdaterEmptyBranches(node, seq, nextType) ==
  IF node.type = nextType THEN Updated(node, seq)
  ELSE IF nextType = "branch"
  THEN Updated(
         SetField(SetField(SetField(node, "type", "branch"), "children", Array(<<>>)),
           "branches",
           Array(<<[label |-> "Yes", node |-> Leaf(Id(seq), "Yes path")],
                   [label |-> "No", node |-> Leaf(Id(seq + 1), "No path")]>>)),
         seq + 2)
  ELSE Updated(
         SetField(SetField(SetField(node, "type", nextType), "branches", Array(<<>>)),
           "children", OrEmpty(Field(node, "children"))),
         seq)

(* changeTypeUpdater giving both new leaves the same id. *)
changeTypeUpdaterSameIds(node, seq, nextType) ==
  IF node.type = nextType THEN Updated(node, seq)
  ELSE IF nextType = "branch"
  THEN Updated(
         SetField(SetField(SetField(node, "type", "branch"), "children", Array(<<>>)),
           "branches",
           Array(<<[label |-> "Yes", node |-> Leaf(Id(seq), "Yes path")],
                   [label |-> "No", node |-> Leaf(Id(seq), "No path")]>>)),
         seq + 1)
  ELSE Updated(
         SetField(SetField(SetField(node, "type", nextType), "branches", Undefined),
           "children", OrEmpty(Field(node, "children"))),
         seq)

(* changeTypeUpdater that does not clear children on the way to branch. *)
changeTypeUpdaterKeepChildren(node, seq, nextType) ==
  IF node.type = nextType THEN Updated(node, seq)
  ELSE IF nextType = "branch"
  THEN Updated(
         SetField(SetField(node, "type", "branch"),
           "branches",
           Array(<<[label |-> "Yes", node |-> Leaf(Id(seq), "Yes path")],
                   [label |-> "No", node |-> Leaf(Id(seq + 1), "No path")]>>)),
         seq + 2)
  ELSE Updated(
         SetField(SetField(SetField(node, "type", nextType), "branches", Undefined),
           "children", OrEmpty(Field(node, "children"))),
         seq)

(* changeTypeUpdater without the check that the type changes. *)
changeTypeUpdaterNoTypeCheck(node, seq, nextType) ==
  IF nextType = "branch"
  THEN Updated(
         SetField(SetField(SetField(node, "type", "branch"), "children", Array(<<>>)),
           "branches",
           Array(<<[label |-> "Yes", node |-> Leaf(Id(seq), "Yes path")],
                   [label |-> "No", node |-> Leaf(Id(seq + 1), "No path")]>>)),
         seq + 2)
  ELSE Updated(
         SetField(SetField(SetField(node, "type", nextType), "branches", Undefined),
           "children", OrEmpty(Field(node, "children"))),
         seq)

changeTypeUpdater(node, seq, nextType) ==
  IF node.type = nextType THEN Updated(node, seq)
  ELSE IF nextType = "branch"
  THEN Updated(
         SetField(SetField(SetField(node, "type", "branch"), "children", Array(<<>>)),
           "branches",
           Array(<<[label |-> "Yes",
                    node |-> [id |-> Id(seq), type |-> "action", title |-> "Yes path",
                              props |-> EmptyObject, children |-> Array(<<>>)]],
                   [label |-> "No",
                    node |-> [id |-> Id(seq + 1), type |-> "action", title |-> "No path",
                              props |-> EmptyObject, children |-> Array(<<>>)]]>>)),
         seq + 2)
  ELSE Updated(
         SetField(SetField(SetField(node, "type", nextType), "branches", Undefined),
           "children", OrEmpty(Field(node, "children"))),
         seq)

(* The edits of the properties panel and of changeType, by name. *)
Updaters ==
  [kind : {"title"}, value : TitleInputs] \cup
  [kind : {"subtitle"}, value : SubtitleInputs] \cup
  [kind : {"condition"}, value : ConditionInputs] \cup
  [kind : {"type"}, value : NodeTypes]

ApplyUpdater(u, node, seq) ==
  CASE u.kind = "title" -> setTitleUpdater(node, seq, u.value)
    [] u.kind = "type" -> changeTypeUpdater(node, seq, u.value)
    [] OTHER -> setPropUpdater(node, seq, u.kind, u.value)

updateNodeMutator(t, seq, targetId, u) ==
  LET m == collectWithParents(t)
  IN IF targetId \notin DOMAIN m THEN Result(t, seq)
     ELSE LET at == m[targetId].node.ref
              r == ApplyUpdater(u, NodeAt(t, at), seq)
          IN Result(Assign(t, at, r.node), r.idSeq)

(* ---- Indices ---------------------------------------------------------- *)

(* The nodes walk(n) of collectNodes sets, in the order it sets them. *)
RECURSIVE walkNodes(_)
walkNodes(n) ==
  LET slots == Slots(n)
  IN <<n>> \o Flatten([i \in 1..Len(slots) |-> walkNodes(slots[i].node)])

collectNodes(root) ==
  LET nodes == walkNodes(root)
      lastOf(id) == LET is == {i \in 1..Len(nodes) : nodes[i].id = id}
                    IN nodes[CHOOSE i \in is : \A j \in is : j <= i]
  IN [id \in {nodes[i].id : i \in 1..Len(nodes)} |-> lastOf(id)]

(* ---- Layout ----------------------------------------------------------- *)

(* widths.reduce((a, b) => a + b, 0) + Math.max(0, widths.length - 1) * SIBLING_GAP_X *)
(* The span with a gap counted after every sub-element. *)
SpanOfGapAfterEach(widths) == Sum(widths) + Len(widths) * SIBLING_GAP_X

SpanOf(widths) == Sum(widths) + Max(0, Len(widths) - 1) * SIBLING_GAP_X

RECURSIVE subtreeWidth(_)
subtreeWidth(node) ==
  IF node.type = "branch"
  THEN LET bs == Field(node, "branches")
           branchNodes == IF bs = Undefined THEN <<>>
                          ELSE [i \in 1..Len(bs.array) |-> bs.array[i].node]
           widths == Values([i \in 1..Len(branchNodes) |-> subtreeWidth(branchNodes[i])])
       IN Max(NODE_W, SpanOf(widths))
  ELSE LET children == OrEmpty(Field(node, "children")).array
       IN IF Len(children) = 0 THEN NODE_W
          ELSE LET widths == Values([i \in 1..Len(children) |-> subtreeWidth(children[i])])
               IN Max(NODE_W, SpanOf(widths))

(* y = depth * (NODE_H + LEVEL_GAP_Y) *)
(* The row pitch without the gap between levels. *)
RowYNoGap(depth) == depth * NODE_H

RowY(depth) == depth * (NODE_H + LEVEL_GAP_Y)

(* edges.push({ fromId, toId }) and edges.push({ fromId, toId, label }) *)
Edge(fromId, toId) == [fromId |-> fromId, toId |-> toId]

(* A branch edge pushed without its label. *)
LabelledEdgeNoLabel(fromId, toId, label) == Edge(fromId, toId)

LabelledEdge(fromId, toId, label) == [fromId |-> fromId, toId |-> toId, label |-> label]

(* cursor before the i-th sub-element: leftX advanced by childW +           *)
(* SIBLING_GAP_X for each earlier one.                                     *)
CursorAt(leftX, widths, i) == leftX + Sum(SubSeq(widths, 1, i - 1)) + (i - 1) * SIBLING_GAP_X

(* What place(node, depth, leftX) adds to boxes and edges, in order: the   *)
(* boxes.set calls as (id, box) pairs and the edges.push calls; calls are  *)
(* the calls of place made, this one first, with their arguments.  Every   *)
(* span and NODE_W are even, so span / 2 and w / 2 are whole numbers.     *)
(* The branch case runs node.branches.forEach, which needs branches to be  *)
(* an array.                                                               *)
RECURSIVE place(_, _, _)
place(node, depth, leftX) ==
  LET y == RowY(depth)
      w == NODE_W
      h == NODE_H
      Box(x) == [id |-> node.id, box |-> [x |-> x, y |-> y, w |-> w, h |-> h]]
      call == [id |-> node.id, depth |-> depth, leftX |-> leftX]
  IN IF node.type = "branch"
     THEN LET bs == Field(node, "branches")
              branchNodes == IF bs = Undefined THEN <<>>
                             ELSE [i \in 1..Len(bs.array) |-> bs.array[i].node]
              widths == Values([i \in 1..Len(branchNodes) |-> subtreeWidth(branchNodes[i])])
              span == SpanOf(widths)
              parentX == leftX + span \div 2 - w \div 2
              sub == Values([i \in 1..Len(node.branches.array) |->
                               place(node.branches.array[i].node, depth + 1,
                                     CursorAt(leftX, widths, i))])
          IN [boxes |-> <<Box(parentX)>> \o Flatten([i \in 1..Len(sub) |-> sub[i].boxes]),
              edges |-> Flatten([i \in 1..Len(sub) |->
                          sub[i].edges \o
                          <<LabelledEdge(node.id, node.branches.array[i].node.id,
                                         node.branches.array[i].label)>>]),
              calls |-> <<call>> \o Flatten([i \in 1..Len(sub) |-> sub[i].calls])]
     ELSE LET children == OrEmpty(Field(node, "children")).array
          IN IF Len(children) = 0
             THEN [boxes |-> <<Box(leftX + subtreeWidth(node) \div 2 - w \div 2)>>,
                   edges |-> <<>>,
                   calls |-> <<call>>]
             ELSE LET widths == Values([i \in 1..Len(children) |-> subtreeWidth(children[i])])
                      span == SpanOf(widths)
                      parentX == leftX + span \div 2 - w \div 2
                      sub == Values([i \in 1..Len(children) |->
                                       place(children[i], depth + 1,
                                             CursorAt(leftX, widths, i))])
                  IN [boxes |-> <<Box(parentX)>> \o Flatten([i \in 1..Len(sub) |-> sub[i].boxes]),
                      edges |-> Flatten([i \in 1..Len(sub) |->
                                  sub[i].edges \o <<Edge(node.id, children[i].id)>>]),
                      calls |-> <<call>> \o Flatten([i \in 1..Len(sub) |-> sub[i].calls])]

computeLayout(root) ==
  LET placed == place(root, 0, 0)
      sets == placed.boxes
      lastOf(id) == LET is == {i \in 1..Len(sets) : sets[i].id = id}
                    IN sets[CHOOSE i \in is : \A j \in is : j <= i].box
  IN [boxes |-> [id \in {sets[i].id : i \in 1..Len(sets)} |-> lastOf(id)],
      edges |-> placed.edges,
      totalW |-> subtreeWidth(root)]

(* The ids a handler may be called with: every id issued so far and the    *)
(* next one, which no node has yet.                                        *)
CallIds == {Id(k) : k \in 1..idSeq}

(* The component's state: useState(initialTree), useState("n1") and        *)
(* useRef(9).  nOps counts the handler calls made, last is the latest call *)
(* and prev the state it was made in.                                      *)
State(t, seq, sel) == [tree |-> t, idSeq |-> seq, selectedId |-> sel]

Cur == State(tree, idSeq, selectedId)

NoCall == [op |-> "none", id |-> "", arg |-> ""]

Init ==
  /\ tree = initialTree
  /\ selectedId = "n1"
  /\ idSeq = 9
  /\ nOps = 0
  /\ last = NoCall
  /\ prev = State(initialTree, 9, "n1")
  /\ issued = {}

(* setTree(prev => { next = cloneTree(prev); mutator(next); return next }) *)
(* in state s, mutated being what the mutator made of cloneTree(s.tree).   *)
mutateTree(s, mutated) == State(mutated.tree, mutated.idSeq, s.selectedId)

(* The handlers, as the state each leaves when called in state s. *)
addChildResult(s, targetId) ==
  mutateTree(s, addChildMutator(cloneTree(s.tree), s.idSeq, targetId))

(* deleteNode without its first line, the root check. *)
deleteNodeResultNoRootCheck(s, targetId) ==
  LET r == mutateTree(s, deleteNodeMutator(cloneTree(s.tree), s.idSeq, targetId))
  IN IF s.selectedId = targetId THEN State(r.tree, r.idSeq, s.tree.id) ELSE r

(* deleteNode resetting the selection whatever was selected. *)
deleteNodeResultAlwaysRepair(s, targetId) ==
  IF targetId = s.tree.id THEN s
  ELSE LET r == mutateTree(s, deleteNodeMutator(cloneTree(s.tree), s.idSeq, targetId))
       IN State(r.tree, r.idSeq, s.tree.id)

(* deleteNode without its last line, the repair of the selection. *)
deleteNodeResultNoRepair(s, targetId) ==
  IF targetId = s.tree.id THEN s
  ELSE mutateTree(s, deleteNodeMutator(cloneTree(s.tree), s.idSeq, targetId))

deleteNodeResult(s, targetId) ==
  IF targetId = s.tree.id THEN s
  ELSE LET r == mutateTree(s, deleteNodeMutator(cloneTree(s.tree), s.idSeq, targetId))
       IN IF s.selectedId = targetId THEN State(r.tree, r.idSeq, s.tree.id) ELSE r

updateNodeResult(s, targetId, u) ==
  mutateTree(s, updateNodeMutator(cloneTree(s.tree), s.idSeq, targetId, u))

changeTypeResult(s, targetId, nextType) ==
  updateNodeResult(s, targetId, [kind |-> "type", value |-> nextType])

Call(bound, op, id, arg, r) ==
  /\ nOps < bound
  /\ nOps' = nOps + 1
  /\ last' = [op |-> op, id |-> id, arg |-> arg]
  /\ prev' = Cur
  /\ tree' = r.tree
  /\ idSeq' = r.idSeq
  /\ selectedId' = r.selectedId
  /\ issued' = issued \cup DOMAIN collectNodes(tree)

addChild(targetId) ==
  Call(MaxOps, "addChild", targetId, "", addChildResult(Cur, targetId))

deleteNode(targetId) ==
  Call(MaxOps, "deleteNode", targetId, "", deleteNodeResult(Cur, targetId))

updateNode(targetId, u) ==
  /\ u.kind # "type"
  /\ Call(MaxOps, "updateNode", targetId, u.kind, updateNodeResult(Cur, targetId, u))

changeType(targetId, nextType) ==
  Call(MaxOps, "changeType", targetId, nextType, changeTypeResult(Cur, targetId, nextType))

Next ==
  \/ \E id \in CallIds : addChild(id)
  \/ \E id \in CallIds : deleteNode(id)
  \/ \E id \in CallIds, u \in Updaters : updateNode(id, u)
  \/ \E id \in CallIds, nextType \in NodeTypes : changeType(id, nextType)

Spec == Init /\ [][Next]_vars

(* The structural handlers alone, for a longer run. *)
addChildS(targetId) ==
  Call(MaxStructOps, "addChild", targetId, "", addChildResult(Cur, targetId))

deleteNodeS(targetId) ==
  Call(MaxStructOps, "deleteNode", targetId, "", deleteNodeResult(Cur, targetId))

changeTypeS(targetId, nextType) ==
  Call(MaxStructOps, "changeType", targetId, nextType, changeTypeResult(Cur, targetId, nextType))

NextStruct ==
  \/ \E id \in CallIds : addChildS(id)
  \/ \E id \in CallIds : deleteNodeS(id)
  \/ \E id \in CallIds, nextType \in NodeTypes : changeTypeS(id, nextType)

SpecStruct == Init /\ [][NextStruct]_vars

(* onSelect={setSelectedId}: a click on the card of a node of the tree. *)
selectResult(s, id) == State(s.tree, s.idSeq, id)

(* The cards rendered: Array.from(nodeMap.values()).map(...). *)
CardIds == DOMAIN collectNodes(tree)

select(id) ==
  Call(MaxOps, "select", id, "", selectResult(Cur, id))

(* The handlers called with any id, and the selection moving. *)
NextSel ==
  \/ Next
  \/ \E id \in CardIds : select(id)

SpecSel == Init /\ [][NextSel]_vars

(* The events of the page: a click on a card or on its + button, and the   *)
(* controls of the properties panel, which is rendered for the node        *)
(* nodeMap.get(selectedId) and acts on selectedId.                         *)
PanelShown == selectedId \in CardIds

clickCard(id) ==
  Call(MaxUiOps, "select", id, "", selectResult(Cur, id))

clickCardAdd(id) ==
  Call(MaxUiOps, "addChild", id, "", addChildResult(Cur, id))

clickAdd ==
  /\ PanelShown
  /\ Call(MaxUiOps, "addChild", selectedId, "panel", addChildResult(Cur, selectedId))

clickDelete ==
  /\ PanelShown
  /\ selectedId # tree.id
  /\ Call(MaxUiOps, "deleteNode", selectedId, "", deleteNodeResult(Cur, selectedId))

changeTypeSelect(nextType) ==
  /\ PanelShown
  /\ Call(MaxUiOps, "changeType", selectedId, nextType,
          changeTypeResult(Cur, selectedId, nextType))

changeInput(u) ==
  /\ PanelShown
  /\ u.kind # "type"
  /\ u.kind = "condition" => collectNodes(tree)[selectedId].type = "branch"
  /\ Call(MaxUiOps, "updateNode", selectedId, u.kind, updateNodeResult(Cur, selectedId, u))

NextUI ==
  \/ \E id \in CardIds : clickCard(id)
  \/ \E id \in CardIds : clickCardAdd(id)
  \/ clickAdd
  \/ clickDelete
  \/ \E nextType \in NodeTypes : changeTypeSelect(nextType)
  \/ \E u \in Updaters : changeInput(u)

SpecUI == Init /\ [][NextUI]_vars

(* ---- Properties ------------------------------------------------------- *)

(* The nodes of the current tree and their ids, as the traversals see them. *)
TreeNodes(t) == LET nodes == walkNodes(t) IN {nodes[i] : i \in 1..Len(nodes)}

TreeIds(t) == {n.id : n \in TreeNodes(t)}

NodeOf(t, id) == collectNodes(t)[id]

(* The number of branch entries of a branch node. *)
BranchCount(n) == Len(OrEmpty(Field(n, "branches")).array)

(* C1: in every reachable tree a branch node has children empty or absent  *)
(* and a trigger or action node has branches absent (undefined, never an   *)
(* empty list).                                                            *)
C1_FanOutMatchesType ==
  \A n \in TreeNodes(tree) :
    /\ n.type \in NodeTypes
    /\ n.type = "branch" => Field(n, "children") \in {Undefined, Array(<<>>)}
    /\ n.type # "branch" => Field(n, "branches") = Undefined

(* The node that started as a branch has just been retyped to action. *)
C1_Witness ==
  /\ last = [op |-> "changeType", id |-> "n2", arg |-> "action"]
  /\ NodeOf(tree, "n2").type = "action"

(* C2: no two distinct nodes of a reachable tree have the same id. *)
C2_UniqueIds ==
  LET nodes == walkNodes(tree)
  IN \A i, j \in 1..Len(nodes) : nodes[i].id = nodes[j].id => i = j

(* Two nodes created by the handlers are in the tree. *)
C2_Witness ==
  /\ idSeq >= 11
  /\ {"n9", "n10"} \subseteq TreeIds(tree)

(* C3: the root keeps the initial root id, and deleteNode called with the  *)
(* root's id leaves the tree as it was.                                    *)
C3_RootNeverDeleted ==
  /\ tree.id = initialTree.id
  /\ (last.op = "deleteNode" /\ last.id = prev.tree.id) => tree = prev.tree

(* deleteNode has been called with the root's id, after another call. *)
C3_Witness ==
  /\ last = [op |-> "deleteNode", id |-> "n1", arg |-> ""]
  /\ nOps = 2
  /\ tree # initialTree

(* C4: every branch node of every reachable tree has at least one branch   *)
(* entry.                                                                  *)
C4_NoEmptyBranch ==
  \A n \in TreeNodes(tree) : n.type = "branch" => BranchCount(n) >= 1

(* C5: in the layout of every reachable tree, two distinct nodes with the  *)
(* same y have horizontally disjoint boxes.                                *)
C5_NonOverlapping ==
  LET boxes == computeLayout(tree).boxes
  IN \A a, b \in DOMAIN boxes :
       (a # b /\ boxes[a].y = boxes[b].y) =>
         \/ boxes[a].x + NODE_W <= boxes[b].x
         \/ boxes[b].x + NODE_W <= boxes[a].x

(* What one node holds, its sub-elements named by id. *)
Kids(n) ==
  LET cs == OrEmpty(Field(n, "children")).array IN [i \in 1..Len(cs) |-> cs[i].id]

Paths(n) ==
  LET bs == OrEmpty(Field(n, "branches")).array
  IN [i \in 1..Len(bs) |-> [label |-> bs[i].label, id |-> bs[i].node.id]]

Shallow(n) ==
  [id |-> n.id, type |-> n.type, title |-> n.title, props |-> n.props,
   hasChildren |-> Field(n, "children") # Undefined, kids |-> Kids(n),
   hasBranches |-> Field(n, "branches") # Undefined, paths |-> Paths(n)]

(* The ids in the fan-out of n, in slot order. *)
SlotIds(n) == [i \in 1..Len(Slots(n)) |-> Slots(n)[i].node.id]

IsActionLeaf(n) ==
  /\ n.type = "action"
  /\ Field(n, "children") = Array(<<>>)
  /\ Field(n, "branches") = Undefined

(* Equality of two trees as JSON values: a key that holds undefined counts *)
(* as a key that is absent.                                                *)
SameValue(a, b) == cloneTree(a) = cloneTree(b)

(* C6: deleteNode on an existing non-root node removes from the flat id    *)
(* map exactly the ids of that node's subtree, and the parent's slot list  *)
(* keeps the other sub-elements in their order.                            *)
C6_DeleteRemovesSubtree ==
  (last.op = "deleteNode" /\ last.id \in TreeIds(prev.tree) \ {prev.tree.id}) =>
    LET before == collectNodes(prev.tree)
        after == collectNodes(tree)
        removed == TreeIds(before[last.id])
        parentId == CHOOSE p \in DOMAIN before :
                      \E i \in 1..Len(SlotIds(before[p])) : SlotIds(before[p])[i] = last.id
    IN /\ DOMAIN after = DOMAIN before \ removed
       /\ SlotIds(after[parentId]) = SelectSeq(SlotIds(before[parentId]), LAMBDA c : c # last.id)

(* deleteNode("n3") has removed n3, n4 and n5 from the initial tree. *)
C6_Witness ==
  /\ last = [op |-> "deleteNode", id |-> "n3", arg |-> ""]
  /\ prev.tree = initialTree
  /\ DOMAIN collectNodes(tree) = {"n1", "n2", "n6", "n7", "n8"}
  /\ SlotIds(NodeOf(tree, "n2")) = <<"n6">>

(* What addChild is to have made of the tree of state s when called with   *)
(* id, r being what it made.                                               *)
AddChildPost(s, id, r) ==
  LET newId == Id(s.idSeq)
      before == collectNodes(s.tree)
      after == collectNodes(r.tree)
  IN /\ newId \notin DOMAIN before
     /\ DOMAIN after = DOMAIN before \cup {newId}
     /\ IsActionLeaf(after[newId])
     /\ IF before[id].type = "branch"
        THEN /\ Paths(after[id]) =
                  Append(Paths(before[id]),
                         [label |-> "Path " \o ToString(BranchCount(before[id]) + 1),
                          id |-> newId])
             /\ Kids(after[id]) = Kids(before[id])
        ELSE /\ Kids(after[id]) = Append(Kids(before[id]), newId)
             /\ Paths(after[id]) = Paths(before[id])
     /\ <<after[id].type, after[id].title, after[id].props>> =
          <<before[id].type, before[id].title, before[id].props>>
     /\ \A x \in DOMAIN before \ {id} : Shallow(after[x]) = Shallow(before[x])

(* C7: addChild on an existing node appends one new action leaf at the end *)
(* of the target's fan-out, labelled "Path <n+1>" when the target is a     *)
(* branch with n entries, and changes nothing else; called on a branch     *)
(* with no entry it leaves the single entry "Path 1".                      *)
C7_AddChildAppends ==
  /\ (last.op = "addChild" /\ last.id \in TreeIds(prev.tree)) => AddChildPost(prev, last.id, Cur)
  /\ \A n \in TreeNodes(tree) :
       (n.type = "branch" /\ BranchCount(n) = 0) =>
         LET r == addChildResult(Cur, n.id)
         IN /\ AddChildPost(Cur, n.id, r)
            /\ Paths(NodeOf(r.tree, n.id)) = <<[label |-> "Path 1", id |-> Id(idSeq)]>>

(* addChild("n2") has added n9 to the initial branch as its third entry. *)
C7_Witness ==
  /\ last = [op |-> "addChild", id |-> "n2", arg |-> ""]
  /\ prev.tree = initialTree
  /\ Paths(NodeOf(tree, "n2")) =
       <<[label |-> "Yes", id |-> "n3"], [label |-> "No", id |-> "n6"],
         [label |-> "Path 3", id |-> "n9"]>>
  /\ IsActionLeaf(NodeOf(tree, "n9"))

(* C8: changeType(id, "branch") on an existing non-branch node leaves it a *)
(* branch with empty children and two entries "Yes", "No" on new action    *)
(* leaves with distinct ids that no node had; its former descendants are   *)
(* gone from the flat id map.                                              *)
C8_RetypeToBranch ==
  (/\ last.op = "changeType"
   /\ last.arg = "branch"
   /\ last.id \in TreeIds(prev.tree)
   /\ NodeOf(prev.tree, last.id).type # "branch") =>
    LET before == collectNodes(prev.tree)
        after == collectNodes(tree)
        node == after[last.id]
        paths == Paths(node)
    IN /\ node.type = "branch"
       /\ Field(node, "children") = Array(<<>>)
       /\ Len(paths) = 2
       /\ <<paths[1].label, paths[2].label>> = <<"Yes", "No">>
       /\ paths[1].id # paths[2].id
       /\ {paths[1].id, paths[2].id} \cap DOMAIN before = {}
       /\ \A i \in 1..2 : IsActionLeaf(node.branches.array[i].node)
       /\ DOMAIN after =
            (DOMAIN before \ (TreeIds(before[last.id]) \ {last.id}))
              \cup {paths[1].id, paths[2].id}

(* changeType("n1", "branch") has been called on the initial tree. *)
C8_Witness ==
  /\ last = [op |-> "changeType", id |-> "n1", arg |-> "branch"]
  /\ prev.tree = initialTree
  /\ tree.type = "branch"
  /\ DOMAIN collectNodes(tree) = {"n1", "n9", "n10"}

(* C9: once changeType(id, "branch") has been called on an existing node,  *)
(* changeType(id, "action") called at once leaves the node an action with  *)
(* branches undefined and children the empty list.                         *)
C9_RetypeRoundTrip ==
  (last.op = "changeType" /\ last.arg = "branch" /\ last.id \in TreeIds(prev.tree)) =>
    LET n == NodeOf(changeTypeResult(Cur, last.id, "action").tree, last.id)
    IN /\ n.type = "action"
       /\ Field(n, "branches") = Undefined
       /\ Field(n, "children") = Array(<<>>)

(* The two calls of the run were changeType("n3", "branch"), which removed *)
(* n4 and n5 and issued n9 and n10, and changeType("n3", "action"), which  *)
(* removed those.                                                          *)
C9_Witness ==
  /\ nOps = 2
  /\ last = [op |-> "changeType", id |-> "n3", arg |-> "action"]
  /\ "n3" \in TreeIds(prev.tree)
  /\ NodeOf(prev.tree, "n3").type = "branch"
  /\ {"n9", "n10"} \subseteq TreeIds(prev.tree)
  /\ IsActionLeaf(NodeOf(tree, "n3"))

(* C10: a handler called with an id no node has, and changeType called     *)
(* with the node's own type, publish a tree equal as a JSON value to the   *)
(* previous one and leave the id counter alone.                            *)
C10_NoOps ==
  (/\ last.op # "none"
   /\ \/ last.id \notin TreeIds(prev.tree)
      \/ last.op = "changeType" /\ last.arg = NodeOf(prev.tree, last.id).type) =>
    /\ SameValue(tree, prev.tree)
    /\ idSeq = prev.idSeq

(* deleteNode has been called with the id of a node deleted before, in a   *)
(* tree that held a key with the value undefined.                          *)
C10_Witness ==
  /\ nOps = 2
  /\ last = [op |-> "deleteNode", id |-> "n3", arg |-> ""]
  /\ "n3" \notin TreeIds(prev.tree)
  /\ "n2" \in TreeIds(prev.tree)
  /\ "branches" \in DOMAIN NodeOf(prev.tree, "n2")
  /\ "branches" \notin DOMAIN NodeOf(tree, "n2")

(* ---- Layout properties ------------------------------------------------ *)

(* C11: every node placed with left edge leftEdge has its box at           *)
(* x = leftEdge + subtreeWidth(node)/2 - NODE_W/2, a branch node with zero *)
(* branch entries included (a leaf of width NODE_W).                       *)
C11_Centering ==
  LET nodes == collectNodes(tree)
      boxes == computeLayout(tree).boxes
      calls == place(tree, 0, 0).calls
  IN \A i \in 1..Len(calls) :
       boxes[calls[i].id].x =
         calls[i].leftX + subtreeWidth(nodes[calls[i].id]) \div 2 - NODE_W \div 2

(* The widths of the sub-elements of n, in slot order. *)
SubWidths(n) == [i \in 1..Len(Slots(n)) |-> subtreeWidth(Slots(n)[i].node)]

(* C12: subtreeWidth(node) >= NODE_W; it is NODE_W for a node with no      *)
(* children and no branch entries, and max(NODE_W, sum of the sub-widths + *)
(* (k - 1) * SIBLING_GAP_X) for a node with k >= 1 sub-elements; totalW is *)
(* subtreeWidth(root).                                                     *)
C12_Width ==
  /\ \A n \in TreeNodes(tree) :
       LET ws == SubWidths(n)
           k == Len(ws)
       IN /\ subtreeWidth(n) >= NODE_W
          /\ (Kids(n) = <<>> /\ BranchCount(n) = 0) => subtreeWidth(n) = NODE_W
          /\ k >= 1 => subtreeWidth(n) = Max(NODE_W, Sum(ws) + (k - 1) * SIBLING_GAP_X)
  /\ computeLayout(tree).totalW = subtreeWidth(tree)

C12_Witness ==
  /\ last = [op |-> "addChild", id |-> "n1", arg |-> ""]
  /\ Len(SubWidths(tree)) = 2
  /\ computeLayout(tree).totalW = 1048 + SIBLING_GAP_X + NODE_W

(* The number of slots between the root and each node. *)
Depths(t) ==
  LET m == collectWithParents(t) IN [id \in DOMAIN m |-> Len(m[id].node.ref)]

(* C13: every node's box has y = depth * (NODE_H + LEVEL_GAP_Y), depth     *)
(* being its distance from the root, whatever its siblings and fan-out;    *)
(* every box is NODE_W wide and NODE_H high.                               *)
C13_DepthToRow ==
  LET boxes == computeLayout(tree).boxes
      depths == Depths(tree)
  IN \A id \in DOMAIN depths :
       /\ id \in DOMAIN boxes
       /\ boxes[id].y = depths[id] * (NODE_H + LEVEL_GAP_Y)
       /\ boxes[id].w = NODE_W
       /\ boxes[id].h = NODE_H

C13_Witness ==
  /\ last = [op |-> "addChild", id |-> "n4", arg |-> ""]
  /\ Depths(tree)["n9"] = 4
  /\ computeLayout(tree).boxes["n9"].y = 512

(* The edges that arrive at the node id. *)
EdgesTo(edges, id) == {i \in 1..Len(edges) : edges[i].toId = id}

(* C14: the layout has exactly one edge per parent-child relation: every   *)
(* non-root node is the toId of exactly one edge, whose fromId is its      *)
(* parent; the root is the toId of none; the edge into a branch slot       *)
(* carries that entry's label, the edge into a child slot carries none.    *)
C14_Edges ==
  LET m == collectWithParents(tree)
      edges == computeLayout(tree).edges
  IN /\ EdgesTo(edges, tree.id) = {}
     /\ Len(edges) = Cardinality(DOMAIN m) - 1
     /\ \A id \in DOMAIN m \ {tree.id} :
          LET parent == NodeAt(tree, m[id].parent.ref)
              key == m[id].parentKey
          IN /\ Cardinality(EdgesTo(edges, id)) = 1
             /\ \A i \in EdgesTo(edges, id) :
                  /\ edges[i].fromId = parent.id
                  /\ IF key.kind = "branch"
                     THEN /\ "label" \in DOMAIN edges[i]
                          /\ edges[i].label = parent.branches.array[key.index + 1].label
                     ELSE "label" \notin DOMAIN edges[i]

C14_Witness ==
  LET edges == computeLayout(tree).edges
  IN /\ last = [op |-> "addChild", id |-> "n2", arg |-> ""]
     /\ \E i \in EdgesTo(edges, "n9") :
          edges[i] = [fromId |-> "n2", toId |-> "n9", label |-> "Path 3"]
     /\ \E i \in EdgesTo(edges, "n4") : edges[i] = [fromId |-> "n3", toId |-> "n4"]


(* ---- Selection, ids and indices --------------------------------------- *)

(* C15: deleteNode(targetId) called while the selection is targetId leaves *)
(* the root id selected; called while the selection is another id, it      *)
(* leaves the selection unchanged.                                         *)
C15_SelectionRepair ==
  last.op = "deleteNode" =>
    /\ prev.selectedId = last.id => selectedId = prev.tree.id
    /\ prev.selectedId # last.id => selectedId = prev.selectedId

C15_Witness ==
  /\ last = [op |-> "deleteNode", id |-> "n3", arg |-> ""]
  /\ prev.selectedId = "n3"
  /\ "n3" \in TreeIds(prev.tree)
  /\ selectedId = "n1"

(* The ids the latest call put into the tree. *)
NewIds == TreeIds(tree) \ TreeIds(prev.tree)

(* C16: an id given to a new node differs from every id present in any     *)
(* earlier tree, the ids of deleted nodes included: the counter never      *)
(* decreases and stays above the number of every id ever in a tree.        *)
C16_IdsNeverReused ==
  /\ NewIds \cap issued = {}
  /\ idSeq >= prev.idSeq
  /\ issued \cup TreeIds(tree) \subseteq {Id(k) : k \in 1..(idSeq - 1)}

C16_Witness ==
  /\ last.op = "addChild"
  /\ "n4" \in issued \ TreeIds(prev.tree)
  /\ NewIds = {"n9"}

(* C17: collectNodes and collectWithParents have the same keys; the root's *)
(* entry has parent null; the parentKey of every other entry leads from    *)
(* its parent back to the node: parent.children[index] for a child slot,   *)
(* parent.branches[index].node for a branch slot.                          *)
C17_IndexConsistency ==
  LET m == collectWithParents(tree)
      nodes == collectNodes(tree)
  IN /\ DOMAIN m = DOMAIN nodes
     /\ m[tree.id].parent = Null
     /\ \A id \in DOMAIN m \ {tree.id} :
          /\ m[id].parent # Null
          /\ m[id].parentKey # Null
          /\ LET parent == NodeAt(tree, m[id].parent.ref)
                 key == m[id].parentKey
                 children == OrEmpty(Field(parent, "children")).array
                 branches == OrEmpty(Field(parent, "branches")).array
             IN /\ NodeAt(tree, m[id].node.ref) = nodes[id]
                /\ key.kind \in {"child", "branch"}
                /\ key.kind = "child" =>
                     /\ key.index + 1 \in 1..Len(children)
                     /\ children[key.index + 1] = nodes[id]
                /\ key.kind = "branch" =>
                     /\ key.index + 1 \in 1..Len(branches)
                     /\ branches[key.index + 1].node = nodes[id]

C17_Witness ==
  LET m == collectWithParents(tree)
  IN /\ last = [op |-> "addChild", id |-> "n2", arg |-> ""]
     /\ "n9" \in DOMAIN m
     /\ m["n9"].parentKey = [kind |-> "branch", index |-> 2]
     /\ m["n9"].parent = m["n2"].node
     /\ m["n4"].parentKey = [kind |-> "child", index |-> 0]

(* C18: under the events of the page (a click on a card or on its +, and   *)
(* add, delete, retype and field edits of the selected node), the root     *)
(* being selected at the start, selectedId is the id of a node of the      *)
(* current tree.                                                           *)
C18_SelectionInTree == selectedId \in TreeIds(tree)

C18_Witness ==
  /\ last.op = "deleteNode"
  /\ last.id = prev.selectedId
  /\ last.id \in TreeIds(prev.tree) \ TreeIds(tree)
  /\ selectedId = tree.id

(* C19: in the layout of every tree reached by addChild, deleteNode and    *)
(* changeType every node has a box, and the box lies inside the extent:    *)
(* 0 <= x and x + NODE_W <= totalW.                                        *)
C19_BoxesInsideExtent ==
  LET layout == computeLayout(tree)
  IN \A id \in TreeIds(tree) :
       /\ id \in DOMAIN layout.boxes
       /\ 0 <= layout.boxes[id].x
       /\ layout.boxes[id].x + NODE_W <= layout.totalW

====
